---- MODULE Spec2Model ----
(***************************************************************************)
(* Local-Bench: the two execution adapters (benchmarkModel, the remote-API *)
(* adapter, and benchmarkWithToolbox, the container-exec adapter), the     *)
(* batch loops that drive them (the CLI main and POST /api/run-benchmark)  *)
(* the SQLite results store (database.ts), and the host side: the          *)
(* accelerator probes and toolbox commands of strixHalo.ts, getSystemSpecs *)
(* and the benchmark command of the STRIX Halo CLI.                        *)
(*                                                                         *)
(* Six specifications share the module:                                   *)
(*   SpecAdapter  one adapter call on an input drawn at Init               *)
(*   SpecBatch    the CLI batch and the server's request handlers          *)
(*   SpecStore    the results store and its readers                        *)
(*   SpecHost     the host probes, the toolbox commands and the snapshot   *)
(*   SpecCsv      one saveResultsToCSV call on a result set drawn at Init  *)
(*   SpecLatest   database.ts again: snapshots saved under a wall clock    *)
(*                that need not advance, and the read of the latest one    *)
(***************************************************************************)
EXTENDS Integers, Sequences, FiniteSets, TLC

VARIABLES
    call,               \* adapter: the call under way (inputs and what the environment answers)
    ret,                \* adapter: sequence holding the returned result, empty before the return
    file,               \* adapter: sequence holding the text of benchmark_results.csv once written
    proc,               \* batch: per batch runner (CLI main or a server request) its control state
    db,                 \* store: the module-level handle, "null" or "open"
    handles,            \* store: number of connections to the database file that are open
    tables,             \* store: names of the tables that exist in the database file
    system_specs,       \* store: committed rows of system_specs, in rowid order
    benchmark_results,  \* store: committed rows of benchmark_results, in rowid order
    tx,                 \* store: the insertMany transaction under way
    clock,              \* store: the wall clock read by new Date()
    lastOp,             \* store: the last store operation, its arguments and what it returned
    catalog,            \* host: STRIX_HALO_TOOLBOXES, the module-level toolbox catalog
    task                \* host: the host operation under way, its awaits and what it returned

adapterVars == <<call, ret, file>>
batchVars   == <<proc>>
storeVars   == <<db, handles, tables, system_specs, benchmark_results, tx, clock, lastOp>>
hostVars    == <<catalog, task>>
vars        == <<call, ret, file, proc, db, handles, tables, system_specs, benchmark_results, tx, clock,
                 lastOp, catalog, task>>

----------------------------------------------------------------------------
(* Bounds *)

MaxOut == 5         \* lexemes in a subprocess output

----------------------------------------------------------------------------
(* JavaScript values *)

Absent == "<absent>"                    \* undefined / a missing property

Min(a, b) == IF a <= b THEN a ELSE b

SeqsUpTo(S, n) == UNION {[1..k -> S] : k \in 0..n}

RECURSIVE Pow10(_)
Pow10(k) == IF k = 0 THEN 1 ELSE 10 * Pow10(k - 1)

\* A JavaScript number as a rational n/d, or NaN, or Infinity; and undefined.
Rat(n, d) == [t |-> "num", n |-> n, d |-> d]
Num(n)    == Rat(n, 1)
NaNValue  == [t |-> "nan", n |-> 0, d |-> 1]
Infinity  == [t |-> "inf", n |-> 0, d |-> 1]
Undefined == [t |-> "undef", n |-> 0, d |-> 1]

IsZero(x)     == x.t = "num" /\ x.n = 0
IsPositive(x) == x.t = "inf" \/ (x.t = "num" /\ x.n > 0)      \* x > 0
Truthy(x)     == x.t = "inf" \/ (x.t = "num" /\ x.n # 0)      \* x as a condition

\* a / b for a >= 0, b >= 0 given as rationals: 0/0 is NaN, a/0 is Infinity
Divide(a, b) ==
    IF b.n = 0
    THEN (IF a.n = 0 THEN NaNValue ELSE Infinity)
    ELSE Rat(a.n * b.d, a.d * b.n)

\* Number.prototype.toFixed(2): the decimal string with two fraction digits,
\* kept as the number of hundredths it spells; "NaN" and "Infinity" as such.
ToFixed2(x) ==
    IF x.t # "num" THEN x
    ELSE Rat((200 * x.n + x.d) \div (2 * x.d), 100)

----------------------------------------------------------------------------
(* Subprocess output as a sequence of lexemes, and the two patterns of     *)
(* benchmarkWithToolbox matched on it.                                     *)

Digits == {"0", "5"}
Spaces == {" "}
Lexemes == Digits \cup Spaces \cup {".", "t/s", "tokens:", "x"}

DigitVal(c) == IF c = "5" THEN 5 ELSE IF c = "2" THEN 2 ELSE 0

\* length of the longest run of lexemes of class cls that starts at s[i]
RECURSIVE RunLen(_, _, _)
RunLen(s, i, cls) ==
    IF i <= Len(s) /\ s[i] \in cls THEN 1 + RunLen(s, i + 1, cls) ELSE 0

\* the decimal value of the len digits s[i], ..., s[i+len-1]
RECURSIVE DigitsValue(_, _, _)
DigitsValue(s, i, len) ==
    IF len = 0 THEN 0
    ELSE 10 * DigitsValue(s, i, len - 1) + DigitVal(s[i + len - 1])

LexAt(s, i) == IF i >= 1 /\ i <= Len(s) THEN s[i] ELSE Absent

\* /(\d+\.?\d*)\s+t\/s/i anchored at position i: <<the captured number>>, or <<>>
TpsMatchAt(s, i) ==
    LET d1  == RunLen(s, i, Digits)
        j   == i + d1
        dot == LexAt(s, j) = "."
        k   == IF dot THEN j + 1 ELSE j
        d2  == IF dot THEN RunLen(s, k, Digits) ELSE 0
        w   == RunLen(s, k + d2, Spaces)
    IN  IF d1 >= 1 /\ w >= 1 /\ LexAt(s, k + d2 + w) = "t/s"
        THEN <<Rat(DigitsValue(s, i, d1) * Pow10(d2) + DigitsValue(s, k, d2), Pow10(d2))>>
        ELSE <<>>

\* output.match(/(\d+\.?\d*)\s+t\/s/i): the leftmost match, <<>> when none
RECURSIVE TpsMatchFrom(_, _)
TpsMatchFrom(s, i) ==
    IF i > Len(s) THEN <<>>
    ELSE IF TpsMatchAt(s, i) # <<>> THEN TpsMatchAt(s, i)
    ELSE TpsMatchFrom(s, i + 1)

tpsMatch(s) == TpsMatchFrom(s, 1)

\* /tokens:\s*(\d+)/i anchored at position i
TokensMatchAt(s, i) ==
    LET w == RunLen(s, i + 1, Spaces)
        d == RunLen(s, i + 1 + w, Digits)
    IN  IF LexAt(s, i) = "tokens:" /\ d >= 1
        THEN <<DigitsValue(s, i + 1 + w, d)>>
        ELSE <<>>

RECURSIVE TokensMatchFrom(_, _)
TokensMatchFrom(s, i) ==
    IF i > Len(s) THEN <<>>
    ELSE IF TokensMatchAt(s, i) # <<>> THEN TokensMatchAt(s, i)
    ELSE TokensMatchFrom(s, i + 1)

tokensMatch(s) == TokensMatchFrom(s, 1)

----------------------------------------------------------------------------
(* Names and paths *)

\* A file path: its directories and the file's stem and extension.
Path(dirs, stem, ext) == [dirs |-> dirs, stem |-> stem, ext |-> ext]

\* path.basename(p, '.gguf'): the last segment, without a trailing .gguf
Basename(p) == [stem |-> p.stem, ext |-> IF p.ext = ".gguf" THEN "" ELSE p.ext]

\* A toolbox name as its dash-separated words; includes(w) finds the marker w
\* anywhere in the name.  A marker has no dash, so it lies inside one word:
\* the word is the marker or holds it ("rocm7" holds "rocm").
WordHas(word, w) == word = w \/ (word = "rocm7" /\ w = "rocm")

Includes(name, w) == \E i \in 1..Len(name) : WordHas(name[i], w)

----------------------------------------------------------------------------
(* The results the adapters return *)

NoName == <<>>

Result(model, toolbox, backend, tps, tokens, dur, success, error) ==
    [model |-> model, toolbox |-> toolbox, backend |-> backend,
     tokensPerSecond |-> tps, totalTokens |-> tokens, durationSeconds |-> dur,
     success |-> success, error |-> error]

\* (endTime - startTime) / 1000
DurationSeconds(durMs) == Rat(durMs, 1000)

\* benchmarkModel, the path after axios.post resolved; evalCount is <<>> when the
\* response carries no eval_count (or no data), <<n>> when it carries n
BenchmarkModelOk(modelName, evalCount, durMs) ==
    LET totalTokens     == IF evalCount = <<>> \/ evalCount[1] = 0 THEN 0 ELSE evalCount[1]
        durationSeconds == DurationSeconds(durMs)
        tokensPerSecond == Divide(Rat(totalTokens, 1), durationSeconds)
    IN  Result(modelName, NoName, Absent, ToFixed2(tokensPerSecond), totalTokens,
               ToFixed2(durationSeconds), TRUE, Absent)

\* a catch block that logs and rethrows: the caller gets the exception
BenchmarkModelCatch_Rethrow(modelName, message) == [thrown |-> message]

\* benchmarkModel, the catch block
BenchmarkModelCatch(modelName, message) ==
    Result(modelName, NoName, Absent, Rat(0, 1), 0, Rat(0, 1), FALSE, message)

Backend(toolboxName) == IF Includes(toolboxName, "rocm") THEN "rocm" ELSE "vulkan"

\* llamaBenchPath: the binary the command runs
LlamaBenchPath(toolboxName) ==
    IF Includes(toolboxName, "vulkan") THEN "/usr/sbin/llama-bench"
    ELSE "/usr/local/bin/llama-bench"

\* envVars: the environment prefix of the command
EnvVars(toolboxName) ==
    IF Includes(toolboxName, "rocm") /\ ~Includes(toolboxName, "hblt0")
    THEN "env ROCBLAS_USE_HIPBLASLT=1" ELSE ""

\* `toolbox run -c ${toolboxName} -- ${envVars} ${llamaBenchPath} ...`
ToolboxRun(toolboxName) ==
    <<[toolbox |-> toolboxName, envVars |-> EnvVars(toolboxName),
       llamaBenchPath |-> LlamaBenchPath(toolboxName)]>>

\* benchmarkWithToolbox, the path after execAsync resolved with this output
BenchmarkWithToolboxOk(modelPath, toolboxName, output, durMs) ==
    LET tm == tpsMatch(output)
        km == tokensMatch(output)
        tokensPerSecond == IF tm # <<>> THEN tm[1] ELSE Rat(0, 1)
        totalTokens     == IF km # <<>> THEN km[1] ELSE 0
    IN  Result(Basename(modelPath), toolboxName, Backend(toolboxName), tokensPerSecond,
               totalTokens, DurationSeconds(durMs), IsPositive(tokensPerSecond), Absent)

\* benchmarkWithToolbox, the catch block
BenchmarkWithToolboxCatch(modelPath, toolboxName, message, durMs) ==
    Result(Basename(modelPath), toolboxName, Backend(toolboxName), Rat(0, 1), 0,
           DurationSeconds(durMs), FALSE, message)

----------------------------------------------------------------------------
(* SpecAdapter: one adapter call.  Init draws the call and what the        *)
(* environment will answer; the action runs the adapter to its return.     *)

ModelNames == {"llama2", "qwen3:0.6b"}
EvalCounts == {<<>>, <<0>>, <<100>>}
Durations  == {0, 1500, 2000}
AxiosErrors == {"timeout of 120000ms exceeded", "Request failed with status code 404",
                "connect ECONNREFUSED"}
ExecErrors  == {"Command failed", "stdout maxBuffer length exceeded"}

ModelPaths == {Path(<<"models">>, "m", ".gguf"), Path(<<>>, "m", ".bin")}
\* the names of the catalog, and names outside it
ToolboxNames == {<<"llama", "rocm", "6.4.4">>, <<"llama", "rocm", "7.1.1">>,
                 <<"llama", "rocm", "7.2">>, <<"llama", "rocm7", "nightlies">>,
                 <<"llama", "vulkan", "radv">>, <<"llama", "vulkan", "amdvlk">>,
                 <<"llama", "cpu">>, <<"llama", "rocm", "hblt0">>,
                 <<"llama", "rocm", "vulkan">>}
Outputs == SeqsUpTo(Lexemes, MaxOut)
SomeOutputs == {<<>>, <<"5", ".", "5", " ", "t/s">>, <<"tokens:", "5">>}

DefaultPath == Path(<<"models">>, "m", ".gguf")
DefaultToolbox == <<"llama", "rocm", "7.2">>

Call(kind, model, path, toolbox, outcome, evalCount, output, message, durMs) ==
    [kind |-> kind, model |-> model, path |-> path, toolboxName |-> toolbox,
     outcome |-> outcome, evalCount |-> evalCount, output |-> output,
     message |-> message, durMs |-> durMs, cmd |-> <<>>]

ModelCalls ==
    {Call("benchmarkModel", m, DefaultPath, NoName, "ok", e, <<>>, Absent, d) :
        m \in ModelNames, e \in EvalCounts, d \in Durations}
    \cup
    {Call("benchmarkModel", m, DefaultPath, NoName, "fail", <<>>, <<>>, msg, d) :
        m \in ModelNames, msg \in AxiosErrors, d \in Durations}

ToolboxCalls ==
    {Call("benchmarkWithToolbox", "", DefaultPath, DefaultToolbox, "ok", <<>>, o, Absent, 2000) :
        o \in Outputs}
    \cup
    {Call("benchmarkWithToolbox", "", p, t, "ok", <<>>, o, Absent, d) :
        p \in ModelPaths, t \in ToolboxNames, o \in SomeOutputs, d \in Durations}
    \cup
    {Call("benchmarkWithToolbox", "", p, t, "fail", <<>>, <<>>, msg, d) :
        p \in ModelPaths, t \in ToolboxNames, msg \in ExecErrors, d \in Durations}

AdapterIdle ==
    /\ call = Call("none", "", DefaultPath, NoName, "ok", <<>>, <<>>, Absent, 0)
    /\ ret = <<>>
    /\ file = <<>>

InitAdapter ==
    /\ call \in ModelCalls \cup ToolboxCalls
    /\ ret = <<>>
    /\ file = <<>>

\* benchmarkModel(modelName), from the call to the return
benchmarkModel ==
    /\ call.kind = "benchmarkModel"
    /\ ret = <<>>
    /\ ret' = <<IF call.outcome = "ok"
                THEN BenchmarkModelOk(call.model, call.evalCount, call.durMs)
                ELSE BenchmarkModelCatch(call.model, call.message)>>
    /\ UNCHANGED <<call, file, batchVars, storeVars, hostVars>>

\* benchmarkWithToolbox(options), from the call to the return
benchmarkWithToolbox ==
    /\ call.kind = "benchmarkWithToolbox"
    /\ ret = <<>>
    /\ ret' = <<IF call.outcome = "ok"
                THEN BenchmarkWithToolboxOk(call.path, call.toolboxName, call.output, call.durMs)
                ELSE BenchmarkWithToolboxCatch(call.path, call.toolboxName, call.message,
                                               call.durMs)>>
    /\ call' = [call EXCEPT !.cmd = ToolboxRun(call.toolboxName)]
    /\ UNCHANGED <<file, batchVars, storeVars, hostVars>>

----------------------------------------------------------------------------
(* SpecCsv: saveResultsToCSV.  Text is a sequence of pieces; a comma and a *)
(* line feed are pieces of their own wherever they occur, in the text the  *)
(* function adds as well as inside a model name.                           *)

MaxCsv == 2         \* results in the set that is exported

Comma == ","
LineFeed == "\n"

\* `${x}` for a number: its shortest decimal text (two decimals at most here)
NumberText(x) ==
    IF x.t = "nan" THEN "NaN"
    ELSE IF x.t = "inf" THEN "Infinity"
    ELSE IF x.t = "undef" THEN "undefined"
    ELSE LET h == (x.n * 100) \div x.d
             f == h % 100
         IN  IF f = 0 THEN ToString(h \div 100)
             ELSE IF f % 10 = 0 THEN ToString(h \div 100) \o "." \o ToString(f \div 10)
             ELSE ToString(h \div 100) \o "." \o (IF f < 10 THEN "0" ELSE "") \o ToString(f)

csvHeader ==
    <<"Model", Comma, "Tokens Per Second", Comma, "Total Tokens", Comma, "Duration (s)",
      Comma, "Timestamp", Comma, "Status", LineFeed>>

\* the template literal of one row
CsvRow(r) ==
    r.model \o <<Comma, NumberText(r.tokensPerSecond), Comma, ToString(r.totalTokens), Comma,
                 NumberText(r.durationSeconds), Comma, r.timestamp, Comma,
                 IF r.success THEN "Success" ELSE "Failed">>

\* rows.join('\n')
RECURSIVE Join(_)
Join(rows) ==
    IF rows = <<>> THEN <<>>
    ELSE IF Len(rows) = 1 THEN rows[1]
    ELSE rows[1] \o <<LineFeed>> \o Join(Tail(rows))

\* csvHeader + csvRows
CsvContent(results) == csvHeader \o Join([i \in 1..Len(results) |-> CsvRow(results[i])])

\* the model names of the exported results: two plain names, a name with a
\* comma in it and a name with a line feed in it
CsvModels == {<<"llama2">>, <<"qwen3:0.6b">>, <<"a", Comma, "b">>, <<"a", LineFeed, "b">>}

CsvResults ==
    {[model |-> m, tokensPerSecond |-> Rat(455, 10), totalTokens |-> 100,
      durationSeconds |-> Rat(22, 10), timestamp |-> "2025-01-01T00:00:00.000Z",
      success |-> TRUE] : m \in CsvModels}
    \cup
    {[model |-> m, tokensPerSecond |-> Num(0), totalTokens |-> 0,
      durationSeconds |-> Num(0), timestamp |-> "2025-01-01T00:00:00.000Z",
      success |-> FALSE] : m \in CsvModels}

CsvCalls ==
    {[Call("saveResultsToCSV", "", DefaultPath, NoName, "ok", <<>>, <<>>, Absent, 0)
        EXCEPT !.output = results] : results \in SeqsUpTo(CsvResults, MaxCsv)}

InitCsv ==
    /\ call \in CsvCalls
    /\ ret = <<>>
    /\ file = <<>>

\* saveResultsToCSV(results), the argument in call.output; writeFileSync writes
\* the text or throws
SaveResultsToCSV(ok) ==
    /\ call.kind = "saveResultsToCSV"
    /\ ret = <<>>
    /\ ret' = <<[thrown |-> ~ok]>>
    /\ file' = IF ok THEN <<CsvContent(call.output)>> ELSE file
    /\ UNCHANGED <<call, batchVars, storeVars, hostVars>>

----------------------------------------------------------------------------
(* SpecBatch: the batch loops.  The CLI main of benchmark.ts is one        *)
(* process; the server is another, in which every POST /api/run-benchmark  *)
(* request runs its own 'end' callback.  Node runs a callback up to its    *)
(* next await in one piece, so an action is the code between two awaits.   *)

MaxBatch == 2       \* workloads in a batch

\* the head of DEFAULT_MODELS; a batch of n workloads is its first n names
Models == <<"gemma3:270m", "qwen3:0.6b", "gemma3:1b", "deepseek-r1:1.5b">>

Workloads == {SubSeq(Models, 1, n) : n \in 0..MaxBatch}

Cli == "cli"
Requests == {"req1", "req2"}
Procs == {Cli} \cup Requests

\* what the endpoint may answer to one benchmarkModel call of a batch
Answers == {[outcome |-> "ok", evalCount |-> <<100>>, message |-> Absent, durMs |-> 2000],
            [outcome |-> "fail", evalCount |-> <<>>, message |-> "timeout of 120000ms exceeded",
             durMs |-> 2000]}

\* status is the exit or the HTTP status sent; responses counts the
\* res.writeHead/res.end pairs written for a request
ProcIdle == [pc |-> "idle", models |-> <<>>, i |-> 0, results |-> <<>>, csv |-> FALSE,
             saved |-> FALSE, status |-> "", url |-> "", method |-> "", responses |-> 0]

\* the requests the server receives
Urls == {"/api/results", "/api/system-specs", "/api/results-with-specs", "/api/models",
         "/api/run-benchmark", "/index.html"}
Methods == {"GET", "POST", "OPTIONS"}
ReadFileErrors == {"", "ENOENT", "EACCES"}

\* a request as the server's callback receives it
Received(url, method) == [ProcIdle EXCEPT !.url = url, !.method = method]

\* res.writeHead(code, ...); res.end(...): the handler has answered
WriteHead(st, code) ==
    [st EXCEPT !.pc = "done", !.status = code, !.responses = @ + 1]

\* the adapter calls of the OS process S that are in flight
InFlight(S) == {p \in S : proc[p].pc = "await_benchmark"}

\* benchmarkModel(model) as the batch loops see it
BenchmarkModelReturn(model, a) ==
    IF a.outcome = "ok" THEN BenchmarkModelOk(model, a.evalCount, a.durMs)
    ELSE BenchmarkModelCatch(model, a.message)

\* a loop that gives up at the first failed result
LoopNext_StopOnFailure(st, results) ==
    IF Len(results) < Len(st.models) /\ (results = <<>> \/ results[Len(results)].success)
    THEN [st EXCEPT !.pc = "await_benchmark", !.i = Len(results) + 1, !.results = results]
    ELSE [st EXCEPT !.pc = "after_loop", !.i = 0, !.results = results]

\* for (const model of models) { const result = await benchmarkModel(model); ... }:
\* entering the loop, or its next iteration, with the results so far
LoopNext(st, results) ==
    IF Len(results) < Len(st.models)
    THEN [st EXCEPT !.pc = "await_benchmark", !.i = Len(results) + 1, !.results = results]
    ELSE [st EXCEPT !.pc = "after_loop", !.i = 0, !.results = results]

\* a handler that answers 200 without waiting for the database save
ServerAfterLoop_NoAwait(st, csvOk) ==
    IF st.pc # "after_loop" THEN st
    ELSE IF csvOk THEN WriteHead([st EXCEPT !.csv = TRUE], "200")
    ELSE WriteHead(st, "500")

\* the server's code after the loop: saveResultsToCSV, then await saveResultsToDatabase
ServerAfterLoop(st, csvOk) ==
    IF st.pc # "after_loop" THEN st
    ELSE IF csvOk THEN [st EXCEPT !.pc = "await_save", !.csv = TRUE]
    ELSE WriteHead(st, "500")

\* the CLI's code after the loop: saveResultsToCSV and the summary
CliAfterLoop(st, csvOk) ==
    IF st.pc # "after_loop" THEN st
    ELSE IF csvOk THEN [st EXCEPT !.pc = "done", !.csv = TRUE, !.status = "exit0"]
    ELSE [st EXCEPT !.pc = "done", !.status = "exit1"]

AfterLoop(p, st, csvOk) == IF p = Cli THEN CliAfterLoop(st, csvOk) ELSE ServerAfterLoop(st, csvOk)

\* main(): the models of the command line, then the connection check is awaited
Main(models) ==
    /\ proc[Cli].pc = "idle"
    /\ Len(models) > 0
    /\ proc' = [proc EXCEPT ![Cli] = [ProcIdle EXCEPT !.pc = "await_tags", !.models = models]]
    /\ UNCHANGED <<adapterVars, storeVars, hostVars>>

\* main(): axios.get(/api/tags) settled; exit(1) when unreachable, else the loop starts
MainConnected(ok, csvOk) ==
    /\ proc[Cli].pc = "await_tags"
    /\ proc' = [proc EXCEPT ![Cli] =
                  IF ok THEN AfterLoop(Cli, LoopNext(@, <<>>), csvOk)
                  ELSE [@ EXCEPT !.pc = "done", !.status = "exit1"]]
    /\ UNCHANGED <<adapterVars, storeVars, hostVars>>

\* POST /api/run-benchmark: the 'end' callback up to its first await.
\* body is <<>> when JSON.parse throws, else <<models>>
PostRunBenchmark(p, body, csvOk) ==
    /\ p \in Requests
    /\ proc[p].pc = "idle"
    /\ LET req == Received("/api/run-benchmark", "POST")
       IN  proc' = [proc EXCEPT ![p] =
                      IF body = <<>> THEN WriteHead(req, "500")
                      ELSE IF Len(body[1]) = 0 THEN WriteHead(req, "400")
                      ELSE AfterLoop(p, LoopNext([req EXCEPT !.models = body[1]], <<>>), csvOk)]
    /\ UNCHANGED <<adapterVars, storeVars, hostVars>>

\* every other request: handleApiRequest up to its first await or its return,
\* and for a URL it does not handle the server's fs.readFile call.  ok tells
\* whether the store read of a synchronous route returned
HandleApiRequest(p, url, method, ok) ==
    /\ p \in Requests
    /\ proc[p].pc = "idle"
    /\ ~(url = "/api/run-benchmark" /\ method = "POST")
    /\ LET req == Received(url, method)
       IN  proc' = [proc EXCEPT ![p] =
                      IF url \in {"/api/results", "/api/system-specs", "/api/results-with-specs"}
                      THEN WriteHead(req, IF ok THEN "200" ELSE "500")
                      ELSE IF url = "/api/models" THEN [req EXCEPT !.pc = "await_models"]
                      ELSE IF url = "/api/run-benchmark"
                      THEN IF method = "OPTIONS" THEN WriteHead(req, "200")
                           ELSE [req EXCEPT !.pc = "done"]
                      ELSE [req EXCEPT !.pc = "await_readFile"]]
    /\ UNCHANGED <<adapterVars, storeVars, hostVars>>

\* GET /api/models: axios.get(/api/tags) settled
ModelsReturn(p, ok) ==
    /\ p \in Requests
    /\ proc[p].pc = "await_models"
    /\ proc' = [proc EXCEPT ![p] = WriteHead(@, IF ok THEN "200" ELSE "500")]
    /\ UNCHANGED <<adapterVars, storeVars, hostVars>>

\* the callback of fs.readFile for a static file
ReadFileReturns(p, error) ==
    /\ p \in Requests
    /\ proc[p].pc = "await_readFile"
    /\ proc' = [proc EXCEPT ![p] =
                  WriteHead(@, IF error = "" THEN "200"
                               ELSE IF error = "ENOENT" THEN "404" ELSE "500")]
    /\ UNCHANGED <<adapterVars, storeVars, hostVars>>

\* the benchmarkModel call of p returns: push the result, go on with the loop
BenchmarkReturns(p, a, csvOk) ==
    /\ proc[p].pc = "await_benchmark"
    /\ LET st     == proc[p]
           result == BenchmarkModelReturn(st.models[st.i], a)
       IN  proc' = [proc EXCEPT ![p] = AfterLoop(p, LoopNext(st, Append(st.results, result)), csvOk)]
    /\ UNCHANGED <<adapterVars, storeVars, hostVars>>

\* saveResultsToDatabase(results) settled: 200 with the results, or the catch's 500
SaveReturns(p, ok) ==
    /\ p \in Requests
    /\ proc[p].pc = "await_save"
    /\ proc' = [proc EXCEPT ![p] =
                  IF ok THEN WriteHead([@ EXCEPT !.saved = TRUE], "200")
                  ELSE WriteHead(@, "500")]
    /\ UNCHANGED <<adapterVars, storeVars, hostVars>>

BatchIdle == proc = [p \in Procs |-> ProcIdle]

----------------------------------------------------------------------------
(* SpecStore: database.ts.  The database file holds the two tables; db is  *)
(* the module's handle on it.  better-sqlite3 is synchronous, so every     *)
(* operation is one action, except the insertMany transaction, whose steps *)
(* (BEGIN, one INSERT per row, COMMIT or ROLLBACK) are separate actions so *)
(* that a reader on another connection can run between them.              *)

MaxRows == 2        \* rows of benchmark_results
MaxSpecs == 1       \* rows of system_specs
MaxSave == 2        \* results in one saveBenchmarkResults call
MaxSnapshots == 2   \* rows of system_specs where the latest snapshot is read
MaxClock == 2       \* the wall clock's range, in milliseconds
Ticks == {-1, 0, 1} \* what the wall clock moved by when the next snapshot is saved

Times == {1, 2}     \* timestamps of results: ISO strings, ordered as the instants they spell

\* a nullable column: <<>> is NULL, <<v>> holds v
Null == <<>>

\* JSON.stringify(v), and JSON.parse of such a text
JsonStringify(v) == [json |-> v]
safeJsonParse(text, fallback) == text.json

\* the SystemSpecs a caller may pass to saveSystemSpecs
SpecsInputs ==
    {[serverName |-> "server1", cpuModel |-> "CPU 1", cpuCores |-> 4,
      motherboard |-> "Test Board", gpus |-> <<"GPU 1">>, strixHalo |-> <<"detected">>],
     [serverName |-> "server2", cpuModel |-> "CPU 2", cpuCores |-> 8,
      motherboard |-> Absent, gpus |-> <<"No GPU detected">>, strixHalo |-> <<>>]}

\* the BenchmarkResults a caller may pass to saveBenchmarkResults; the last kind
\* has no model, which statement.run refuses
ResultInputs ==
    {[model |-> "llama2", tokensPerSecond |-> Rat(455, 10), totalTokens |-> 100,
      durationSeconds |-> Rat(22, 10), timestamp |-> t, success |-> TRUE, error |-> Absent] :
        t \in {t \in Times : \A u \in Times : t <= u}}
    \cup
    {[model |-> m, tokensPerSecond |-> Rat(0, 1), totalTokens |-> 0,
      durationSeconds |-> Rat(0, 1), timestamp |-> t, success |-> FALSE,
      error |-> "Model not found"] :
        m \in {"failed-model", Absent}, t \in {t \in Times : \A u \in Times : u <= t}}

\* the systemSpecsId arguments: absent, 0, the ids the file can hold, an id it cannot
SpecsIdInputs == {Undefined, Num(0)} \cup {Num(i) : i \in 1..(MaxSpecs + 1)}

NoOp == [op |-> "none", limit |-> Undefined, query |-> <<>>, rows |-> <<>>, threw |-> FALSE,
         id |-> 0, before |-> 0, size |-> 0, sid |-> Undefined, wasOpen |-> FALSE]

NoTx == [active |-> FALSE, todo |-> <<>>, pending |-> <<>>, sid |-> Undefined, before |-> 0,
         size |-> 0]

AllTables == {"system_specs", "benchmark_results"}

\* a schema step that creates the table anew whether or not it exists
CreateTable_Recreate(existing, name, rows) == <<>>

\* CREATE TABLE IF NOT EXISTS name: the rows of the table after it
CreateTableIfNotExists(existing, name, rows) == IF name \in existing THEN rows ELSE <<>>

\* getDatabase(): the handle is returned when there is one, else initDatabase()
\* opens the file and creates what is missing
TablesAfterGet  == IF db = "open" THEN tables ELSE tables \cup AllTables
SpecsAfterGet   == IF db = "open" THEN system_specs
                   ELSE CreateTableIfNotExists(tables, "system_specs", system_specs)
ResultsAfterGet == IF db = "open" THEN benchmark_results
                   ELSE CreateTableIfNotExists(tables, "benchmark_results", benchmark_results)

\* an initDatabase that opens a connection whether or not one is open
HandlesAfterGet_Reopen == handles + 1

\* if (db) return db; otherwise new Database(DB_PATH) opens a connection
HandlesAfterGet == IF db = "open" THEN handles ELSE handles + 1

\* closeDatabase(): if (db) { db.close(); db = null }
HandlesAfterClose == IF db = "open" THEN handles - 1 ELSE handles

\* value || null, as bound to a nullable column
OrNull(x) == IF Truthy(x) THEN <<x.n>> ELSE Null
TextOrNull(x) == IF x = Absent \/ x = "" THEN Null ELSE <<x>>

\* the row saveSystemSpecs inserts
SpecsRow(id, specs, now) ==
    [id |-> id, server_name |-> specs.serverName, cpu_model |-> specs.cpuModel,
     cpu_cores |-> specs.cpuCores, motherboard |-> TextOrNull(specs.motherboard),
     gpus |-> JsonStringify(specs.gpus),
     strix_halo |-> IF specs.strixHalo # <<>> THEN <<JsonStringify(specs.strixHalo)>> ELSE Null,
     timestamp |-> now]

\* a row that drops the snapshot reference
ResultRow_NoReference(id, result, systemSpecsId) ==
    [id |-> id, model |-> result.model, tokens_per_second |-> result.tokensPerSecond,
     total_tokens |-> result.totalTokens, duration_seconds |-> result.durationSeconds,
     timestamp |-> result.timestamp, success |-> IF result.success THEN 1 ELSE 0,
     error |-> TextOrNull(result.error), system_specs_id |-> Null]

\* the row one stmt.run of saveBenchmarkResults inserts
ResultRow(id, result, systemSpecsId) ==
    [id |-> id, model |-> result.model, tokens_per_second |-> result.tokensPerSecond,
     total_tokens |-> result.totalTokens, duration_seconds |-> result.durationSeconds,
     timestamp |-> result.timestamp, success |-> IF result.success THEN 1 ELSE 0,
     error |-> TextOrNull(result.error), system_specs_id |-> OrNull(systemSpecsId)]

\* a reference nobody checks
ForeignKey_Unchecked(ref, specsRows) == TRUE

\* FOREIGN KEY (system_specs_id) REFERENCES system_specs(id), checked by the INSERT
ForeignKeyOk(ref, specsRows) ==
    ref = Null \/ \E i \in 1..Len(specsRows) : specsRows[i].id = ref[1]

\* stmt.run accepts the row: every NOT NULL column is bound and the reference holds
InsertOk(result, systemSpecsId, specsRows) ==
    /\ result.model # Absent
    /\ ForeignKeyOk(OrNull(systemSpecsId), specsRows)

\* an INSERT outside any transaction: committed at once
TxInsert_Autocommit(committed, pending, row) ==
    [committed |-> Append(committed, row), pending |-> pending]

\* one INSERT inside the transaction: what is committed and what is pending after it
TxInsert(committed, pending, row) ==
    [committed |-> committed, pending |-> Append(pending, row)]

\* a commit that overwrites the table with the batch
TxCommit_Replace(committed, pending) == pending

\* COMMIT and ROLLBACK: the committed rows after them
TxCommit(committed, pending) == committed \o pending
TxRollback(committed, pending) == committed

----------------------------------------------------------------------------
(* The queries *)

\* the orders ORDER BY timestamp DESC may return the rows in: rows of equal
\* timestamp come in an order SQL leaves open
\* a query without ORDER BY: the rows in rowid order
OrderByRowid(rows) == {rows}

RECURSIVE OrdersDesc(_, _)
OrdersDesc(rows, S) ==
    IF S = {} THEN {<<>>}
    ELSE UNION {{<<rows[i]>> \o rest : rest \in OrdersDesc(rows, S \ {i})} :
                   i \in {j \in S : \A k \in S : rows[j].timestamp >= rows[k].timestamp}}

OrderByTimestampDesc(rows) == OrdersDesc(rows, 1..Len(rows))

\* one row of the join: the result's columns under their aliases, and in ss the
\* snapshot row with ss.id = br.system_specs_id, if any
JoinRow(br, specs) ==
    [id |-> br.id, model |-> br.model, tokensPerSecond |-> br.tokens_per_second,
     totalTokens |-> br.total_tokens, durationSeconds |-> br.duration_seconds,
     timestamp |-> br.timestamp, success |-> br.success, error |-> br.error,
     systemSpecsId |-> br.system_specs_id,
     ss |-> IF br.system_specs_id = Null THEN <<>>
            ELSE SelectSeq(specs, LAMBDA r : r.id = br.system_specs_id[1])]

\* an inner join: the results that have a snapshot row
InnerJoin(results, specs) ==
    SelectSeq([i \in 1..Len(results) |-> JoinRow(results[i], specs)], LAMBDA r : r.ss # <<>>)

\* FROM benchmark_results br LEFT JOIN system_specs ss ON br.system_specs_id = ss.id
LeftJoin(results, specs) == [i \in 1..Len(results) |-> JoinRow(results[i], specs)]

\* a LIMIT for whatever number is given
UseLimit_AnyNumber(limit) == limit.t = "num"

\* limit && limit > 0
UseLimit(limit) == Truthy(limit) /\ IsPositive(limit)

\* LIMIT n: a negative n is no limit
SqlLimit(rows, n) == IF n < 0 THEN rows ELSE SubSeq(rows, 1, Min(n, Len(rows)))

\* stmt.all(limit) on query + ' LIMIT ?', or stmt.all() on the query alone
ApplyLimit(rows, limit) == IF UseLimit(limit) THEN SqlLimit(rows, limit.n) ELSE rows

\* mapResultsWithSpecs, one row
MapResultWithSpecs(row) ==
    [id |-> row.id, model |-> row.model, tokensPerSecond |-> row.tokensPerSecond,
     totalTokens |-> row.totalTokens, durationSeconds |-> row.durationSeconds,
     timestamp |-> row.timestamp, success |-> row.success # 0, error |-> row.error,
     systemSpecsId |-> row.systemSpecsId,
     systemSpecs |->
        IF row.ss # <<>> /\ row.ss[1].server_name # ""
        THEN <<[id |-> row.systemSpecsId, serverName |-> row.ss[1].server_name,
                cpuModel |-> row.ss[1].cpu_model, cpuCores |-> row.ss[1].cpu_cores,
                motherboard |-> row.ss[1].motherboard,
                gpus |-> safeJsonParse(row.ss[1].gpus, <<>>),
                strixHalo |-> IF row.ss[1].strix_halo # Null
                              THEN safeJsonParse(row.ss[1].strix_halo[1], <<>>) ELSE <<>>,
                timestamp |-> row.timestamp]>>
        ELSE <<>>]

mapResultsWithSpecs(rows) == [i \in 1..Len(rows) |-> MapResultWithSpecs(rows[i])]

\* getBenchmarkResultsWithSpecs(limit): the values it may return
ResultsWithSpecs(limit, results, specs) ==
    {mapResultsWithSpecs(ApplyLimit(rows, limit)) :
        rows \in OrderByTimestampDesc(LeftJoin(results, specs))}

\* getAllBenchmarkResults(): the values it may return
AllResults(results) ==
    {[i \in 1..Len(rows) |->
        [id |-> rows[i].id, model |-> rows[i].model,
         tokensPerSecond |-> rows[i].tokens_per_second, totalTokens |-> rows[i].total_tokens,
         durationSeconds |-> rows[i].duration_seconds, timestamp |-> rows[i].timestamp,
         success |-> rows[i].success # 0, error |-> rows[i].error,
         systemSpecsId |-> rows[i].system_specs_id]] :
        rows \in OrderByTimestampDesc(results)}

\* the value of ?limit= in a request URL: <<>> when the parameter is missing,
\* else <<s>> with s its characters
QueryDigits == {"0", "2"}
LimitParams == {<<>>, <<<<>>>>, <<<<"a">>>>, <<<<"0">>>>, <<<<"-", "2">>>>, <<<<"2">>>>,
                <<<<"2", "a">>>>, <<<<"a", "2">>>>}

\* parseInt(s): an optional sign, then the longest run of digits; NaN without a digit
ParseInt(s) ==
    LET neg   == LexAt(s, 1) = "-"
        start == IF neg THEN 2 ELSE 1
        d     == RunLen(s, start, QueryDigits)
    IN  IF d = 0 THEN NaNValue
        ELSE Num((IF neg THEN -1 ELSE 1) * DigitsValue(s, start, d))

\* limit ? parseInt(limit) : undefined, on searchParams.get('limit')
ParseLimitParam(q) == IF q = <<>> \/ q[1] = <<>> THEN Undefined ELSE ParseInt(q[1])

\* the limits a caller may pass to getBenchmarkResultsWithSpecs
LimitInputs == {Undefined, NaNValue, Num(-1), Num(0), Num(1), Num(2)}

----------------------------------------------------------------------------
(* The operations of database.ts.  lastOp records the last call and what   *)
(* it returned.  An operation of this process cannot start while the       *)
(* synchronous transaction runs; a query can, from another process on the  *)
(* same file (the dashboard server while the CLI saves).  What an          *)
(* operation returned stays in lastOp until its caller has taken it        *)
(* (Respond); the next operation is called after that.                     *)

Queries == {"getAllBenchmarkResults", "getBenchmarkResultsWithSpecs",
            "GET /api/results-with-specs"}

\* no result is waiting for its caller
Ready == lastOp = NoOp

\* getDatabase() at the head of an operation
GetDatabase ==
    /\ db' = "open"
    /\ handles' = HandlesAfterGet
    /\ tables' = TablesAfterGet

\* initDatabase()
InitDatabase ==
    /\ Ready
    /\ ~tx.active
    /\ GetDatabase
    /\ system_specs' = SpecsAfterGet
    /\ benchmark_results' = ResultsAfterGet
    /\ lastOp' = [NoOp EXCEPT !.op = "initDatabase", !.wasOpen = (db = "open")]
    /\ UNCHANGED <<tx, clock, adapterVars, batchVars, hostVars>>

\* closeDatabase()
CloseDatabase ==
    /\ Ready
    /\ ~tx.active
    /\ db' = "null"
    /\ handles' = HandlesAfterClose
    /\ lastOp' = [NoOp EXCEPT !.op = "closeDatabase", !.wasOpen = (db = "open")]
    /\ UNCHANGED <<tables, system_specs, benchmark_results, tx, clock, adapterVars, batchVars, hostVars>>

\* saveSystemSpecs(specs); new Date() reads the clock, which has moved on by the
\* next call
SaveSystemSpecs(specs) ==
    /\ Ready
    /\ ~tx.active
    /\ Len(system_specs) < MaxSpecs
    /\ clock' = clock + 1
    /\ GetDatabase
    /\ LET id == Len(SpecsAfterGet) + 1
       IN  /\ system_specs' = Append(SpecsAfterGet, SpecsRow(id, specs, clock))
           /\ lastOp' = [NoOp EXCEPT !.op = "saveSystemSpecs", !.id = id]
    /\ benchmark_results' = ResultsAfterGet
    /\ UNCHANGED <<tx, adapterVars, batchVars, hostVars>>

\* saveSystemSpecs(specs) under a wall clock that a later call may find on the
\* same millisecond (tick 0), later (1) or, after an adjustment, set back (-1)
SaveSystemSpecsAt(specs, tick) ==
    /\ Ready
    /\ ~tx.active
    /\ Len(system_specs) < MaxSnapshots
    /\ clock + tick \in 0..MaxClock
    /\ clock' = clock + tick
    /\ GetDatabase
    /\ LET id == Len(SpecsAfterGet) + 1
       IN  /\ system_specs' = Append(SpecsAfterGet, SpecsRow(id, specs, clock))
           /\ lastOp' = [NoOp EXCEPT !.op = "saveSystemSpecs", !.id = id]
    /\ benchmark_results' = ResultsAfterGet
    /\ UNCHANGED <<tx, adapterVars, batchVars, hostVars>>

\* saveBenchmarkResults(results, systemSpecsId): insertMany(results) begins
SaveBenchmarkResults(results, systemSpecsId) ==
    /\ Ready
    /\ ~tx.active
    /\ Len(benchmark_results) + Len(results) <= MaxRows
    /\ GetDatabase
    /\ system_specs' = SpecsAfterGet
    /\ benchmark_results' = ResultsAfterGet
    /\ tx' = [active |-> TRUE, todo |-> results, pending |-> <<>>, sid |-> systemSpecsId,
              before |-> Len(ResultsAfterGet), size |-> Len(results)]
    /\ UNCHANGED <<lastOp, clock, adapterVars, batchVars, hostVars>>

\* the next stmt.run of the transaction; a row it refuses throws, which rolls back
InsertRow ==
    /\ Ready
    /\ tx.active
    /\ tx.todo # <<>>
    /\ LET result == Head(tx.todo)
           id     == Len(benchmark_results) + Len(tx.pending) + 1
           after  == TxInsert(benchmark_results, tx.pending, ResultRow(id, result, tx.sid))
       IN  IF InsertOk(result, tx.sid, system_specs)
           THEN /\ benchmark_results' = after.committed
                /\ tx' = [tx EXCEPT !.todo = Tail(tx.todo), !.pending = after.pending]
                /\ UNCHANGED lastOp
           ELSE /\ benchmark_results' = TxRollback(benchmark_results, tx.pending)
                /\ tx' = NoTx
                /\ lastOp' = [NoOp EXCEPT !.op = "saveBenchmarkResults", !.sid = tx.sid,
                                          !.before = tx.before, !.size = tx.size,
                                          !.threw = TRUE, !.rows = tx.pending]
    /\ UNCHANGED <<db, handles, tables, system_specs, clock, adapterVars, batchVars, hostVars>>

\* the transaction function returned: COMMIT
Commit ==
    /\ Ready
    /\ tx.active
    /\ tx.todo = <<>>
    /\ benchmark_results' = TxCommit(benchmark_results, tx.pending)
    /\ tx' = NoTx
    /\ lastOp' = [NoOp EXCEPT !.op = "saveBenchmarkResults", !.sid = tx.sid,
                              !.before = tx.before, !.size = tx.size, !.rows = tx.pending]
    /\ UNCHANGED <<db, handles, tables, system_specs, clock, adapterVars, batchVars, hostVars>>

\* a query leaves the file and the transaction as they are
QueryFrame ==
    /\ GetDatabase
    /\ system_specs' = SpecsAfterGet
    /\ benchmark_results' = ResultsAfterGet
    /\ UNCHANGED <<tx, clock, adapterVars, batchVars, hostVars>>

\* the record getLatestSystemSpecs builds from the row it read
SystemSpecsRecord(row) ==
    [id |-> row.id, serverName |-> row.server_name, cpuModel |-> row.cpu_model,
     cpuCores |-> row.cpu_cores, motherboard |-> row.motherboard,
     gpus |-> safeJsonParse(row.gpus, <<>>),
     strixHalo |-> IF row.strix_halo # Null
                   THEN safeJsonParse(row.strix_halo[1], <<>>) ELSE <<>>,
     timestamp |-> row.timestamp]

\* SELECT ... FROM system_specs ORDER BY timestamp DESC LIMIT 1, then
\* if (!row) return null: the outcomes, each a sequence holding the record
\* returned, empty for null
LatestSystemSpecs(specs) ==
    IF specs = <<>> THEN {Null}
    ELSE {<<SystemSpecsRecord(rows[1])>> : rows \in OrderByTimestampDesc(specs)}

\* getLatestSystemSpecs()
GetLatestSystemSpecs ==
    /\ Ready
    /\ \E latest \in LatestSystemSpecs(SpecsAfterGet) :
          lastOp' = [NoOp EXCEPT !.op = "getLatestSystemSpecs", !.rows = latest]
    /\ QueryFrame

\* getAllBenchmarkResults()
GetAllBenchmarkResults ==
    /\ Ready
    /\ \E rows \in AllResults(ResultsAfterGet) :
          lastOp' = [NoOp EXCEPT !.op = "getAllBenchmarkResults", !.rows = rows,
                                 !.wasOpen = (db = "open")]
    /\ QueryFrame

\* getBenchmarkResultsWithSpecs(limit)
GetBenchmarkResultsWithSpecs(limit) ==
    /\ Ready
    /\ \E rows \in ResultsWithSpecs(limit, ResultsAfterGet, SpecsAfterGet) :
          lastOp' = [NoOp EXCEPT !.op = "getBenchmarkResultsWithSpecs", !.limit = limit,
                                 !.rows = rows]
    /\ QueryFrame

\* GET /api/results-with-specs?limit=q, answered 200 with the rows
ApiResultsWithSpecs(q) ==
    /\ Ready
    /\ LET limit == ParseLimitParam(q)
       IN  \E rows \in ResultsWithSpecs(limit, ResultsAfterGet, SpecsAfterGet) :
              lastOp' = [NoOp EXCEPT !.op = "GET /api/results-with-specs", !.query = q,
                                     !.limit = limit, !.rows = rows]
    /\ QueryFrame

\* the caller has the operation's result: the dashboard's response is written
\* (res.end(JSON.stringify(results))), a direct caller goes on
Respond ==
    /\ ~Ready
    /\ lastOp' = NoOp
    /\ UNCHANGED <<db, handles, tables, system_specs, benchmark_results, tx, clock, adapterVars,
                   batchVars, hostVars>>

StoreIdle ==
    /\ db = "null"
    /\ handles = 0
    /\ tables = {}
    /\ system_specs = <<>>
    /\ benchmark_results = <<>>
    /\ tx = NoTx
    /\ clock = 1
    /\ lastOp = NoOp

----------------------------------------------------------------------------
(* SpecHost: the host side.  An operation runs as a task: the code between *)
(* two awaits is one action.  When an await on a subprocess or on the      *)
(* network begins, the environment decides whether it will ever answer; a  *)
(* timer ends the await only where the code passes a timeout option.       *)

MaxWords  == 2      \* words in the hardware-enumeration output
MaxListed == 2      \* lines in the toolbox listing

Blank == "\n"

RECURSIVE TrimLeft(_)
TrimLeft(text) ==
    IF text # <<>> /\ Head(text) = Blank THEN TrimLeft(Tail(text)) ELSE text

RECURSIVE TrimRight(_)
TrimRight(text) ==
    IF text # <<>> /\ text[Len(text)] = Blank
    THEN TrimRight(SubSeq(text, 1, Len(text) - 1))
    ELSE text

\* text.trim()
Trim(text) == TrimRight(TrimLeft(text))

\* the lower-cased word contains the marker
WordIncludes(word, marker) ==
    \/ word = "AMD" /\ marker = "amd"
    \/ word = "compatible" /\ marker = "ati"
    \/ word = "Radeon" /\ marker = "radeon"

\* text.toLowerCase().includes(marker), the text as its words
LowerIncludes(text, marker) == \E i \in 1..Len(text) : WordIncludes(text[i], marker)

\* first/next position of a word at or after position i, 0 when there is none
RECURSIVE IndexFrom(_, _, _)
IndexFrom(text, w, i) ==
    IF i > Len(text) THEN 0
    ELSE IF text[i] = w THEN i
    ELSE IndexFrom(text, w, i + 1)

\* the model name taken from the first line of the enumeration:
\* line.match(/:\s*(.+?)\s*\[/), else line.split(':').slice(1).join(':').trim()
GpuModel(line) ==
    LET colon   == IndexFrom(line, ":", 1)
        bracket == IF colon = 0 THEN 0 ELSE IndexFrom(line, "[", colon + 1)
    IN  IF bracket # 0 THEN Trim(SubSeq(line, colon + 1, bracket - 1))
        ELSE IF colon # 0 THEN Trim(SubSeq(line, colon + 1, Len(line)))
        ELSE <<>>

\* StrixHaloInfo; an optional field is <<>> while it is not set
StrixHaloInfo(detected, gpuModel, rocmVersion, vulkanSupport) ==
    [detected |-> detected, gpuModel |-> gpuModel, rocmVersion |-> rocmVersion,
     vulkanSupport |-> vulkanSupport]

NoInfo == StrixHaloInfo(FALSE, <<>>, <<>>, <<>>)

\* detectStrixHalo, from the lspci output to the ROCm probe
InfoAfterLspci(info, lspciOutput) ==
    LET isAMD     == LowerIncludes(lspciOutput, "amd") \/ LowerIncludes(lspciOutput, "ati")
        hasRadeon == LowerIncludes(lspciOutput, "radeon")
    IN  IF isAMD \/ hasRadeon
        THEN [info EXCEPT !.detected = TRUE,
                          !.gpuModel = IF Trim(lspciOutput) # <<>>
                                       THEN <<GpuModel(Trim(lspciOutput))>>
                                       ELSE @]
        ELSE info

\* STRIX_HALO_TOOLBOXES; a name is its dash-separated words
Toolbox(name, backend, version, image) ==
    [name |-> name, backend |-> backend, version |-> version, image |-> image,
     available |-> FALSE]

STRIX_HALO_TOOLBOXES ==
    << Toolbox(<<"llama", "rocm", "6.4.4">>, "rocm", "6.4.4",
               "docker.io/kyuz0/amd-strix-halo-toolboxes:rocm-6.4.4"),
       Toolbox(<<"llama", "rocm", "7.1.1">>, "rocm", "7.1.1",
               "docker.io/kyuz0/amd-strix-halo-toolboxes:rocm-7.1.1"),
       Toolbox(<<"llama", "rocm", "7.2">>, "rocm", "7.2",
               "docker.io/kyuz0/amd-strix-halo-toolboxes:rocm-7.2"),
       Toolbox(<<"llama", "rocm7", "nightlies">>, "rocm", "nightly",
               "docker.io/kyuz0/amd-strix-halo-toolboxes:rocm7-nightlies"),
       Toolbox(<<"llama", "vulkan", "radv">>, "vulkan", "radv",
               "docker.io/kyuz0/amd-strix-halo-toolboxes:vulkan-radv"),
       Toolbox(<<"llama", "vulkan", "amdvlk">>, "vulkan", "amdvlk",
               "docker.io/kyuz0/amd-strix-halo-toolboxes:vulkan-amdvlk") >>

\* the words of name appear in line, in a row
IsInfix(name, line) ==
    \E i \in 0..(Len(line) - Len(name)) :
        \A k \in 1..Len(name) : line[i + k] = name[k]

\* an exact line, not a substring: what listAvailableToolboxes does not do
StdoutIncludes_WholeLine(stdout, name) == \E i \in 1..Len(stdout) : stdout[i] = name

\* stdout.includes(toolbox.name), the listing as its lines
StdoutIncludes(stdout, name) == \E i \in 1..Len(stdout) : IsInfix(name, stdout[i])

\* STRIX_HALO_TOOLBOXES.map(toolbox => ({...toolbox, available: stdout.includes(toolbox.name)}))
MarkAvailable(toolboxes, stdout) ==
    [i \in 1..Len(toolboxes) |->
        [toolboxes[i] EXCEPT !.available = StdoutIncludes(stdout, toolboxes[i].name)]]

IsPrefix(p, s) == Len(p) <= Len(s) /\ SubSeq(s, 1, Len(p)) = p

\* models.some(m => m.name.startsWith(modelName)); a name is its colon-separated words
SomeStartsWith(models, modelName) == \E i \in 1..Len(models) : IsPrefix(modelName, models[i])

----------------------------------------------------------------------------
(* Tasks *)

\* what an await is waiting for: the command or request, the timeout option
\* passed with it (<<>> when none is passed), and whether the environment will
\* ever answer it
Wait(cmd, timeout, answers) == <<[cmd |-> cmd, timeout |-> timeout, answers |-> answers]>>
NoWait == <<>>

\* what the environment answers: the promise resolves (ok) with this output, or
\* rejects with this message
Answer(ok, stdout, evalCount, message) ==
    [ok |-> ok, stdout |-> stdout, evalCount |-> evalCount, message |-> message]
Resolved(stdout) == Answer(TRUE, stdout, <<>>, Absent)
Rejected(message) == Answer(FALSE, <<>>, <<>>, message)

IntrospectionCalls == {"cpu", "mem", "osInfo", "graphics", "baseboard", "detectStrixHalo"}

Pending == [status |-> "pending", value |-> <<>>]
NoCalls == [c \in {} |-> Pending]

Task(kind, arg, pc, wait, log, info, calls, returned) ==
    [kind |-> kind, arg |-> arg, pc |-> pc, wait |-> wait, log |-> log, info |-> info,
     calls |-> calls, ret |-> returned]

IdleTask == Task("none", <<>>, "idle", NoWait, <<>>, NoInfo, NoCalls, <<>>)

\* no host operation is under way
TaskFree == task.pc \in {"idle", "returned"}

\* the code up to the first await of an operation
Begin(kind, arg, cmd, timeout, answers) ==
    Task(kind, arg, "await", Wait(cmd, timeout, answers), <<>>, NoInfo, NoCalls, <<>>)

\* the next await of the operation under way
Await(t, cmd, timeout, answers) == [t EXCEPT !.wait = Wait(cmd, timeout, answers)]

\* return v
Return(t, v) == [t EXCEPT !.pc = "returned", !.wait = NoWait, !.ret = <<v>>]

\* detectStrixHalo from the settling of one await to the next await or the return
ResumeDetect(t, a, answers) ==
    LET cmd == t.wait[1].cmd
    IN  CASE cmd = "lspci" ->
                IF a.ok
                THEN Await([t EXCEPT !.info = InfoAfterLspci(@, a.stdout)],
                           "which rocm-smi", <<>>, answers)
                ELSE Return(t, t.info)
          [] cmd = "which rocm-smi" ->
                IF a.ok /\ Trim(a.stdout) # <<>>
                THEN Await(t, "rocm-smi --showproductname", <<>>, answers)
                ELSE Await(t, "which vulkaninfo", <<>>, answers)
          [] cmd = "rocm-smi --showproductname" ->
                Await([t EXCEPT !.info.rocmVersion =
                                    IF a.ok /\ a.stdout = <<>> THEN @ ELSE <<"installed">>],
                      "which vulkaninfo", <<>>, answers)
          [] cmd = "which vulkaninfo" ->
                LET info == [t.info EXCEPT !.vulkanSupport = <<a.ok /\ Trim(a.stdout) # <<>>>>]
                IN  Return([t EXCEPT !.info = info], info)

\* an operation with a single await, from its settling to the return
ResumeSingle(t, a) ==
    CASE t.kind = "isToolboxInstalled" -> Return(t, a.ok)
      [] t.kind = "listAvailableToolboxes" ->
            Return(t, IF a.ok THEN MarkAvailable(catalog, a.stdout) ELSE catalog)
      [] t.kind = "createToolbox" -> Return(t, a.ok)
      [] t.kind = "checkModelAvailable" ->
            Return(t, a.ok /\ SomeStartsWith(a.stdout, t.arg))
      [] t.kind = "benchmarkModel" ->
            Return(t, IF a.ok THEN BenchmarkModelOk(t.arg, a.evalCount, 2000)
                      ELSE BenchmarkModelCatch(t.arg, a.message))
      [] t.kind = "benchmarkWithToolbox" ->
            Return(t, IF a.ok
                      THEN BenchmarkWithToolboxOk(DefaultPath, t.arg, a.stdout, 2000)
                      ELSE BenchmarkWithToolboxCatch(DefaultPath, t.arg, a.message, 2000))

Resume(t, a, answers) ==
    LET logged == [t EXCEPT !.log = Append(@, [cmd |-> t.wait[1].cmd, ok |-> a.ok, stdout |-> a.stdout])]
    IN  IF t.kind = "detectStrixHalo" THEN ResumeDetect(logged, a, answers)
        ELSE ResumeSingle(logged, a)

\* what the environment can answer to the await of the task
LspciWords == {"AMD", "Radeon", "compatible", "Intel", ":", "["}
WhichOutputs == {<<>>, <<Blank>>, <<"/usr/bin/tool">>}
ListingLines == {<<"llama", "rocm", "7.2">>, <<"llama", "vulkan", "radv", "old">>,
                 <<"fedora", "toolbox">>}
TagNames == {<<"llama2">>, <<"llama2", "latest">>, <<"qwen3", "0.6b">>}
ModelQueries == {<<"llama2">>, <<"llama2", "latest">>, <<"mistral">>}

ExecAnswers(t) ==
    LET cmd == t.wait[1].cmd
    IN  CASE cmd = "lspci" ->
                {Resolved(o) : o \in SeqsUpTo(LspciWords, MaxWords)} \cup {Rejected("Command failed")}
          [] cmd \in {"which rocm-smi", "rocm-smi --showproductname", "which vulkaninfo",
                      "which toolbox", "toolbox create"} ->
                {Resolved(o) : o \in WhichOutputs} \cup {Rejected("Command failed")}
          [] cmd = "toolbox list" ->
                {Resolved(o) : o \in SeqsUpTo(ListingLines, MaxListed)} \cup {Rejected("Command failed")}
          [] cmd = "GET /api/tags" ->
                {Resolved(o) : o \in {<<>>} \cup {<<n>> : n \in TagNames}} \cup {Rejected("connect ECONNREFUSED")}
          [] cmd = "POST /api/generate" ->
                {Answer(TRUE, <<>>, e, Absent) : e \in EvalCounts}
                \cup {Rejected(m) : m \in AxiosErrors}
          [] cmd = "toolbox run" ->
                {Resolved(o) : o \in SomeOutputs} \cup {Rejected(m) : m \in ExecErrors}

\* the rejection a timer produces when it ends the await
TimeoutRejection(t) ==
    IF t.wait[1].cmd = "POST /api/generate"
    THEN Rejected("timeout of 120000ms exceeded")
    ELSE Rejected("Command failed")

----------------------------------------------------------------------------
(* The host operations *)

\* detectStrixHalo(), up to its first await
DetectStrixHalo(answers) ==
    /\ TaskFree
    /\ task' = Begin("detectStrixHalo", <<>>, "lspci", <<>>, answers)
    /\ UNCHANGED <<catalog, adapterVars, batchVars, storeVars>>

\* isToolboxInstalled(), up to its await
IsToolboxInstalled(answers) ==
    /\ TaskFree
    /\ task' = Begin("isToolboxInstalled", <<>>, "which toolbox", <<>>, answers)
    /\ UNCHANGED <<catalog, adapterVars, batchVars, storeVars>>

\* listAvailableToolboxes(), up to its await
ListAvailableToolboxes(answers) ==
    /\ TaskFree
    /\ task' = Begin("listAvailableToolboxes", <<>>, "toolbox list", <<>>, answers)
    /\ UNCHANGED <<catalog, adapterVars, batchVars, storeVars>>

\* createToolbox(toolbox) on entry i of the catalog, up to its await
CreateToolbox(i, answers) ==
    /\ TaskFree
    /\ task' = Begin("createToolbox", catalog[i].name, "toolbox create", <<>>, answers)
    /\ UNCHANGED <<catalog, adapterVars, batchVars, storeVars>>

\* checkModelAvailable(modelName), up to its await
CheckModelAvailable(modelName, answers) ==
    /\ TaskFree
    /\ task' = Begin("checkModelAvailable", modelName, "GET /api/tags", <<>>, answers)
    /\ UNCHANGED <<catalog, adapterVars, batchVars, storeVars>>

\* benchmarkModel(modelName), up to its await: axios.post with timeout: 120000
BenchmarkModelPosts(modelName, answers) ==
    /\ TaskFree
    /\ task' = Begin("benchmarkModel", modelName, "POST /api/generate", <<120000>>, answers)
    /\ UNCHANGED <<catalog, adapterVars, batchVars, storeVars>>

\* benchmarkWithToolbox(options), up to its await: execAsync with timeout: 300000
BenchmarkWithToolboxRuns(toolboxName, answers) ==
    /\ TaskFree
    /\ task' = Begin("benchmarkWithToolbox", toolboxName, "toolbox run", <<300000>>, answers)
    /\ UNCHANGED <<catalog, adapterVars, batchVars, storeVars>>

\* the awaited command or request answers: the promise settles and the
\* operation runs on to its next await or to its return
ExecSettles(answers) ==
    /\ task.wait # NoWait
    /\ task.wait[1].answers
    /\ \E a \in ExecAnswers(task) : task' = Resume(task, a, answers)
    /\ UNCHANGED <<catalog, adapterVars, batchVars, storeVars>>

\* the timer of the timeout option ends the await with a rejection
TimeoutFires ==
    /\ task.wait # NoWait
    /\ task.wait[1].timeout # <<>>
    /\ task' = Resume(task, TimeoutRejection(task), FALSE)
    /\ UNCHANGED <<catalog, adapterVars, batchVars, storeVars>>

----------------------------------------------------------------------------
(* getSystemSpecs *)

Controllers == {<<>>, <<"">>, <<"Radeon 8060S">>}
ProbeResults == {NoInfo, StrixHaloInfo(TRUE, <<<<"Radeon">>>>, <<"installed">>, <<TRUE>>)}

SystemSpecs(cpuModel, osType, gpus, strixHalo) ==
    [serverName |-> "os.hostname()", cpuModel |-> cpuModel, osType |-> osType, gpus |-> gpus,
     strixHalo |-> strixHalo]

\* graphics.controllers.map(gpu => ({model: gpu.model || 'Unknown GPU', ...}))
GpuModels(controllers) ==
    [i \in 1..Len(controllers) |-> IF controllers[i] = "" THEN "Unknown GPU" ELSE controllers[i]]

\* the list as it is, with no entry when no controller was found
GpusOrSentinel_AsIs(gpus) == gpus

\* gpus.length > 0 ? gpus : [{ model: 'No GPU detected' }]
GpusOrSentinel(gpus) == IF Len(gpus) > 0 THEN gpus ELSE <<"No GPU detected">>

\* the snapshot of the try block, from the values Promise.all resolved with
FullSpecs(calls) ==
    LET strixHalo == calls["detectStrixHalo"].value[1]
    IN  SystemSpecs("cpu.brand", "osInfo.platform",
                    GpusOrSentinel(GpuModels(calls["graphics"].value)),
                    IF strixHalo.detected THEN <<strixHalo>> ELSE <<>>)

\* the snapshot of the catch block, from the os module
FallbackSpecs ==
    SystemSpecs("os.cpus()[0].model", "os.platform()", <<"Unable to detect GPU">>, <<>>)

\* what an introspection call can settle with
Settlements(c) ==
    CASE c = "graphics" ->
            {[status |-> "ok", value |-> g] : g \in Controllers}
            \cup {[status |-> "failed", value |-> <<>>]}
      [] c = "detectStrixHalo" -> {[status |-> "ok", value |-> <<i>>] : i \in ProbeResults}
      [] OTHER -> {[status |-> "ok", value |-> <<>>], [status |-> "failed", value |-> <<>>]}

\* getSystemSpecs(), up to await Promise.all([...]): the six calls are started
GetSystemSpecs ==
    /\ TaskFree
    /\ task' = Task("getSystemSpecs", <<>>, "await", NoWait, <<>>, NoInfo,
                    [c \in IntrospectionCalls |-> Pending], <<>>)
    /\ UNCHANGED <<catalog, adapterVars, batchVars, storeVars>>

\* one of the six promises settles.  Promise.all rejects on the first
\* rejection and resolves when all six have resolved; the promises still
\* pending after a rejection go on and settle later, unobserved
IntrospectionSettles(c) ==
    /\ task.kind = "getSystemSpecs"
    /\ task.calls[c].status = "pending"
    /\ \E s \in Settlements(c) :
          LET calls == [task.calls EXCEPT ![c] = s]
              t     == [task EXCEPT !.calls = calls]
          IN  task' = IF task.pc # "await" THEN t
                      ELSE IF s.status = "failed" THEN Return(t, FallbackSpecs)
                      ELSE IF \A d \in IntrospectionCalls : calls[d].status = "ok"
                           THEN Return(t, FullSpecs(calls))
                      ELSE t
    /\ UNCHANGED <<catalog, adapterVars, batchVars, storeVars>>

----------------------------------------------------------------------------
(* The benchmark command of the STRIX Halo CLI *)

\* parseBenchmarkArgs(args): the model path if one was given, whether the file
\* exists, and the toolbox name
CmdArgs ==
    {[modelPath |-> <<>>, exists |-> FALSE, toolbox |-> DefaultToolbox],
     [modelPath |-> <<DefaultPath>>, exists |-> FALSE, toolbox |-> DefaultToolbox],
     [modelPath |-> <<DefaultPath>>, exists |-> TRUE, toolbox |-> <<"llama", "cpu">>],
     [modelPath |-> <<DefaultPath>>, exists |-> TRUE, toolbox |-> DefaultToolbox],
     [modelPath |-> <<DefaultPath>>, exists |-> TRUE,
      toolbox |-> <<"llama", "vulkan", "radv">>]}

\* STRIX_HALO_TOOLBOXES.find(t => t.name === options.toolbox) found one
KnownToolbox(name) == \E i \in 1..Len(catalog) : catalog[i].name = name

\* how the process ends: its exit code, whether the benchmark produced a
\* measurement, and whether the measurement was written to the store
Exit(exitCode, measured, saved) ==
    [exitCode |-> exitCode, measured |-> measured, saved |-> saved]

CmdResults(toolbox) ==
    {BenchmarkWithToolboxOk(DefaultPath, toolbox, o, 2000) : o \in SomeOutputs}
    \cup {BenchmarkWithToolboxCatch(DefaultPath, toolbox, m, 2000) : m \in ExecErrors}

\* a conversion that names the default toolbox, whichever ran
CmdBenchmarkResults_DefaultToolbox(result, now) ==
    <<[model |-> <<result.model, " (", DefaultToolbox, ")">>,
       tokensPerSecond |-> result.tokensPerSecond,
       totalTokens |-> result.totalTokens, durationSeconds |-> result.durationSeconds,
       timestamp |-> now, success |-> result.success, error |-> Absent]>>

\* the benchmarkResults array cmdBenchmark builds from the adapter's result:
\* one entry, its model `${result.model} (${result.toolbox})`, no error field
CmdBenchmarkResults(result, now) ==
    <<[model |-> <<result.model, " (", result.toolbox, ")">>,
       tokensPerSecond |-> result.tokensPerSecond,
       totalTokens |-> result.totalTokens, durationSeconds |-> result.durationSeconds,
       timestamp |-> now, success |-> result.success, error |-> Absent]>>

\* cmdBenchmark(args), up to await benchmarkWithToolbox(...); the command is
\* followed on a store file that no earlier run has written
CmdBenchmark(options) ==
    /\ TaskFree
    /\ system_specs = <<>>
    /\ benchmark_results = <<>>
    /\ LET t == Task("cmdBenchmark", options.toolbox, "benchmark", NoWait, <<>>, NoInfo,
                     NoCalls, <<>>)
       IN  task' = IF options.modelPath = <<>> \/ ~options.exists
                      \/ ~KnownToolbox(options.toolbox)
                   THEN Return(t, Exit(1, FALSE, FALSE))
                   ELSE t
    /\ UNCHANGED <<catalog, adapterVars, batchVars, storeVars>>

\* benchmarkWithToolbox returned: the command reports, and on success calls
\* initDatabase() and awaits getSystemSpecs(), the result kept in task.info; a
\* throw of initDatabase is caught and logged
CmdBenchmarkReturns(initOk) ==
    /\ task.kind = "cmdBenchmark"
    /\ task.pc = "benchmark"
    /\ \E result \in CmdResults(task.arg) :
          IF result.success /\ initOk
          THEN /\ task' = [task EXCEPT !.pc = "getSystemSpecs", !.info = result]
               /\ GetDatabase
               /\ system_specs' = SpecsAfterGet
               /\ benchmark_results' = ResultsAfterGet
               /\ UNCHANGED <<tx, clock, lastOp>>
          ELSE /\ task' = IF result.success THEN Return(task, Exit(0, TRUE, FALSE))
                          ELSE Return(task, Exit(1, FALSE, FALSE))
               /\ UNCHANGED storeVars
    /\ UNCHANGED <<catalog, adapterVars, batchVars>>

\* getSystemSpecs returned specs: saveSystemSpecs and saveBenchmarkResults run; a
\* throw of either is caught and logged, the command returns and the process
\* ends, which closes its handle
CmdSpecsReturn(specs, specsOk, resultsOk) ==
    /\ task.kind = "cmdBenchmark"
    /\ task.pc = "getSystemSpecs"
    /\ LET systemSpecsId    == Len(system_specs) + 1
           benchmarkResults == CmdBenchmarkResults(task.info, clock)
           row == ResultRow(Len(benchmark_results) + 1, benchmarkResults[1],
                            Num(systemSpecsId))
       IN  /\ system_specs' = IF specsOk
                              THEN Append(system_specs, SpecsRow(systemSpecsId, specs, clock))
                              ELSE system_specs
           /\ benchmark_results' = IF specsOk /\ resultsOk
                                   THEN TxCommit(benchmark_results, <<row>>)
                                   ELSE benchmark_results
    /\ clock' = IF specsOk THEN clock + 1 ELSE clock
    /\ db' = "null"
    /\ handles' = HandlesAfterClose
    /\ task' = Return(task, Exit(0, TRUE, specsOk /\ resultsOk))
    /\ UNCHANGED <<tables, tx, lastOp, catalog, adapterVars, batchVars>>

HostIdle ==
    /\ catalog = STRIX_HALO_TOOLBOXES
    /\ task = IdleTask

----------------------------------------------------------------------------
(* The specifications *)

NextAdapter ==
    \/ benchmarkModel
    \/ benchmarkWithToolbox

InitSpecAdapter == InitAdapter /\ BatchIdle /\ StoreIdle /\ HostIdle

SpecAdapter == InitSpecAdapter /\ [][NextAdapter]_vars

NextCsv == \E ok \in BOOLEAN : SaveResultsToCSV(ok)

InitSpecCsv == InitCsv /\ BatchIdle /\ StoreIdle /\ HostIdle

SpecCsv == InitSpecCsv /\ [][NextCsv]_vars

NextBatch ==
    \/ \E models \in Workloads : Main(models)
    \/ \E ok \in BOOLEAN, csvOk \in BOOLEAN : MainConnected(ok, csvOk)
    \/ \E p \in Requests, body \in {<<>>} \cup {<<w>> : w \in Workloads}, csvOk \in BOOLEAN :
          PostRunBenchmark(p, body, csvOk)
    \/ \E p \in Procs, a \in Answers, csvOk \in BOOLEAN : BenchmarkReturns(p, a, csvOk)
    \/ \E p \in Requests, ok \in BOOLEAN : SaveReturns(p, ok)
    \/ \E p \in Requests, url \in Urls, method \in Methods, ok \in BOOLEAN :
          HandleApiRequest(p, url, method, ok)
    \/ \E p \in Requests, ok \in BOOLEAN : ModelsReturn(p, ok)
    \/ \E p \in Requests, error \in ReadFileErrors : ReadFileReturns(p, error)

InitSpecBatch == AdapterIdle /\ BatchIdle /\ StoreIdle /\ HostIdle

SpecBatch == InitSpecBatch /\ [][NextBatch]_vars

NextStore ==
    \/ InitDatabase
    \/ CloseDatabase
    \/ \E specs \in SpecsInputs : SaveSystemSpecs(specs)
    \/ \E results \in SeqsUpTo(ResultInputs, MaxSave), sid \in SpecsIdInputs :
          SaveBenchmarkResults(results, sid)
    \/ InsertRow
    \/ Commit
    \/ GetAllBenchmarkResults
    \/ \E limit \in LimitInputs : GetBenchmarkResultsWithSpecs(limit)
    \/ \E q \in LimitParams : ApiResultsWithSpecs(q)
    \/ Respond

InitSpecStore == AdapterIdle /\ BatchIdle /\ StoreIdle /\ HostIdle

SpecStore == InitSpecStore /\ [][NextStore]_vars

NextLatest ==
    \/ InitDatabase
    \/ CloseDatabase
    \/ \E specs \in SpecsInputs, tick \in Ticks : SaveSystemSpecsAt(specs, tick)
    \/ GetLatestSystemSpecs
    \/ Respond

InitSpecLatest == AdapterIdle /\ BatchIdle /\ StoreIdle /\ HostIdle

SpecLatest == InitSpecLatest /\ [][NextLatest]_vars

NextHost ==
    \/ \E answers \in BOOLEAN : DetectStrixHalo(answers)
    \/ \E answers \in BOOLEAN : IsToolboxInstalled(answers)
    \/ \E answers \in BOOLEAN : ListAvailableToolboxes(answers)
    \/ \E i \in 1..Len(STRIX_HALO_TOOLBOXES), answers \in BOOLEAN : CreateToolbox(i, answers)
    \/ \E m \in ModelQueries, answers \in BOOLEAN : CheckModelAvailable(m, answers)
    \/ \E m \in ModelNames, answers \in BOOLEAN : BenchmarkModelPosts(m, answers)
    \/ \E n \in ToolboxNames, answers \in BOOLEAN : BenchmarkWithToolboxRuns(n, answers)
    \/ \E answers \in BOOLEAN : ExecSettles(answers)
    \/ TimeoutFires
    \/ GetSystemSpecs
    \/ \E c \in IntrospectionCalls : IntrospectionSettles(c)
    \/ \E options \in CmdArgs : CmdBenchmark(options)
    \/ \E initOk \in BOOLEAN : CmdBenchmarkReturns(initOk)
    \/ \E specs \in SpecsInputs, specsOk \in BOOLEAN, resultsOk \in BOOLEAN :
          CmdSpecsReturn(specs, specsOk, resultsOk)

InitSpecHost == AdapterIdle /\ BatchIdle /\ StoreIdle /\ HostIdle

SpecHost == InitSpecHost /\ [][NextHost]_vars

----------------------------------------------------------------------------
(* Claims about the adapters (SpecAdapter) *)

\* C1: every result an adapter returns with success = false has
\* tokensPerSecond = 0 and totalTokens = 0.
C1_FailedResultHasZeroMetrics ==
    ret # <<>> =>
        (~ret[1].success => IsZero(ret[1].tokensPerSecond) /\ ret[1].totalTokens = 0)

\* C2: every result an adapter returns carries an error message if and only if
\* its success is false.
C2_ErrorIffFailure ==
    ret # <<>> => ((ret[1].error # Absent) <=> ~ret[1].success)

Abs(x) == IF x < 0 THEN -x ELSE x

\* |tps - tokens / dur| <= 1/100 for a finite tps and a positive finite dur
RateMatches(tps, tokens, dur) ==
    /\ tps.t = "num"
    /\ 100 * Abs(tps.n * dur.n - tokens * dur.d * tps.d) <= tps.d * dur.n

\* C11: every result an adapter returns with durationSeconds > 0 has
\* tokensPerSecond equal to totalTokens / durationSeconds, to within the
\* rounding of two decimals.
C11_RateIsTokensOverDuration ==
    (ret # <<>> /\ ret[1].durationSeconds.t = "num" /\ ret[1].durationSeconds.n > 0) =>
        RateMatches(ret[1].tokensPerSecond, ret[1].totalTokens, ret[1].durationSeconds)

\* C12: a successful benchmarkModel run measured at a duration of zero returns
\* tokensPerSecond = 0, whatever its eval_count.
C12_ZeroDurationRateIsZero ==
    (ret # <<>> /\ call.kind = "benchmarkModel" /\ call.outcome = "ok" /\ call.durMs = 0) =>
        IsZero(ret[1].tokensPerSecond)

\* the adapter returned a result (it did not throw)
ReturnedNormally(r) == "success" \in DOMAIN r

\* the model field a result must carry for the workload of this call
WorkloadName(c) == IF c.kind = "benchmarkModel" THEN c.model ELSE Basename(c.path)

\* C20: when the underlying call fails (network error, non-2xx status, timeout,
\* non-zero exit, output-buffer overflow) the adapter returns normally a result
\* with success = false, the underlying error text as its error, and the
\* workload as its model.
C20_FailureIsReturnedNotThrown ==
    (ret # <<>> /\ call.outcome = "fail") =>
        /\ ReturnedNormally(ret[1])
        /\ ~ret[1].success
        /\ ret[1].error = call.message
        /\ ret[1].model = WorkloadName(call)

C20_Witness ==
    /\ ret # <<>>
    /\ call.outcome = "fail"
    /\ call.kind = "benchmarkWithToolbox"
    /\ call.message = "stdout maxBuffer length exceeded"
    /\ ~ret[1].success

----------------------------------------------------------------------------
(* Claims about the batch loops (SpecBatch) *)

\* the runner went through its whole loop
PastLoop(st) == st.pc = "await_save" \/ st.csv \/ st.status \in {"200", "exit0"}

\* C3: a batch of N workloads yields N results in invocation order, result i
\* being for workload i; a failed workload is recorded as a success = false
\* result and the workloads after it are still executed.
C3_OneResultPerWorkload ==
    \A p \in Procs :
        LET st == proc[p]
        IN  /\ Len(st.results) <= Len(st.models)
            /\ \A k \in 1..Len(st.results) : st.results[k].model = st.models[k]
            /\ st.pc = "await_benchmark" => st.i = Len(st.results) + 1
            /\ PastLoop(st) => Len(st.results) = Len(st.models)
            /\ (st.pc = "done" /\ Len(st.results) < Len(st.models)) => st.results = <<>>

\* a finished batch whose first workload failed and whose second succeeded
C3_Witness ==
    \E p \in Procs :
        /\ proc[p].status \in {"200", "exit0"}
        /\ Len(proc[p].results) >= 2
        /\ ~proc[p].results[1].success
        /\ proc[p].results[1].error # Absent
        /\ proc[p].results[2].success

\* C4: at most one adapter call is in flight in a process at any time: in the
\* CLI, and in the server also when a second request arrives during a batch.
C4_AtMostOneInFlight ==
    /\ Cardinality(InFlight({Cli})) <= 1
    /\ Cardinality(InFlight(Requests)) <= 1

----------------------------------------------------------------------------
(* Claims about the results store (SpecStore) *)

SaveReturned == lastOp.op = "saveBenchmarkResults"

JoinedQueries == {"getBenchmarkResultsWithSpecs", "GET /api/results-with-specs"}

\* the snapshot id matches a row of system_specs
MatchesSnapshot(sid) ==
    sid.t = "num" /\ \E j \in 1..Len(system_specs) : system_specs[j].id = sid.n

\* the rows the last query returned are all the rows of benchmark_results
AllReturned ==
    /\ ~lastOp.threw
    /\ Len(lastOp.rows) = Len(benchmark_results)
    /\ \A k \in 1..Len(benchmark_results) :
          \E j \in 1..Len(lastOp.rows) : lastOp.rows[j].id = benchmark_results[k].id

\* C5: saveBenchmarkResults is one atomic batch write: while it runs no row of
\* its batch is committed, a reader that runs meanwhile gets none of them, a
\* call that fails on some row leaves no row of the batch, and a call that
\* succeeds leaves them all.
C5_AtomicBatchWrite ==
    /\ tx.active => Len(benchmark_results) = tx.before
    /\ (tx.active /\ lastOp.op \in Queries) =>
          \A j \in 1..Len(lastOp.rows) : lastOp.rows[j].id <= tx.before
    /\ (SaveReturned /\ lastOp.threw) => Len(benchmark_results) = lastOp.before
    /\ (SaveReturned /\ ~lastOp.threw) =>
          Len(benchmark_results) = lastOp.before + lastOp.size

\* a batch of two or more was rolled back after a row of it had been inserted
C5_Witness ==
    /\ SaveReturned
    /\ lastOp.threw
    /\ lastOp.size >= 2
    /\ Len(lastOp.rows) >= 1

\* every reference of a result row is to a row of system_specs
ReferencesExist ==
    \A k \in 1..Len(benchmark_results) :
        benchmark_results[k].system_specs_id # Null =>
            \E j \in 1..Len(system_specs) :
                system_specs[j].id = benchmark_results[k].system_specs_id[1]

C7_InitDatabaseIdempotent ==
    [][(lastOp'.op = "initDatabase" /\ lastOp' # lastOp) =>
          /\ system_specs' = system_specs
          /\ benchmark_results' = benchmark_results
          /\ tables \subseteq tables']_vars

\* initDatabase has reopened, after closeDatabase, a file that holds rows in
\* both tables
C7_Witness ==
    /\ lastOp.op = "initDatabase"
    /\ ~lastOp.wasOpen
    /\ system_specs # <<>>
    /\ benchmark_results # <<>>

C9_PositiveLimit ==
    (lastOp.op \in JoinedQueries /\ lastOp.limit.t = "num" /\ lastOp.limit.n > 0) =>
        LET rows == lastOp.rows
            k    == Len(benchmark_results)
            returned(i) == \E j \in 1..Len(rows) : rows[j].id = benchmark_results[i].id
        IN  /\ Len(rows) = Min(lastOp.limit.n, k)
            /\ \A j \in 1..Len(rows) :
                  \E i \in 1..k : /\ benchmark_results[i].id = rows[j].id
                                  /\ benchmark_results[i].timestamp = rows[j].timestamp
            /\ \A j1, j2 \in 1..Len(rows) : j1 # j2 => rows[j1].id # rows[j2].id
            /\ \A j \in 1..(Len(rows) - 1) : rows[j].timestamp >= rows[j + 1].timestamp
            /\ \A i \in 1..k :
                  ~returned(i) =>
                      \A j \in 1..Len(rows) : rows[j].timestamp >= benchmark_results[i].timestamp

\* a limit of 1 cut off the older of two results saved older first
C9_Witness ==
    /\ lastOp.op = "getBenchmarkResultsWithSpecs"
    /\ lastOp.limit = Num(1)
    /\ Len(benchmark_results) >= 2
    /\ benchmark_results[1].timestamp < benchmark_results[2].timestamp
    /\ Len(lastOp.rows) = 1

\* the ?limit= values that spell no positive number
NoPositiveNumber == {<<>>, <<<<>>>>, <<<<"a">>>>, <<<<"0">>>>, <<<<"-", "2">>>>, <<<<"a", "2">>>>}

\* C10: a limit that is undefined, NaN, 0 or negative, passed directly or as a
\* ?limit= value of GET /api/results-with-specs, is no limit: every result is
\* returned and nothing is raised.
C10_NoLimit ==
    /\ (lastOp.op = "getBenchmarkResultsWithSpecs"
          /\ (lastOp.limit.t \in {"undef", "nan"}
                \/ (lastOp.limit.t = "num" /\ lastOp.limit.n <= 0))) => AllReturned
    /\ (lastOp.op = "GET /api/results-with-specs" /\ lastOp.query \in NoPositiveNumber) =>
          AllReturned

\* GET /api/results-with-specs?limit=0 answered with both results of the store
C10_Witness ==
    /\ lastOp.op = "GET /api/results-with-specs"
    /\ lastOp.query = <<<<"0">>>>
    /\ lastOp.limit = Num(0)
    /\ Len(lastOp.rows) >= 2

Kept(rows, after) ==
    /\ Len(after) >= Len(rows)
    /\ \A i \in 1..Len(rows) : after[i] = rows[i]

\* C22: the store is append-only and its rows immutable: no step of any
\* operation removes or changes a row that system_specs or benchmark_results
\* holds.
C22_AppendOnly ==
    [][Kept(system_specs, system_specs') /\ Kept(benchmark_results, benchmark_results')]_vars

\* a second batch was committed after the first, which is still the first row
C22_Witness ==
    /\ SaveReturned
    /\ ~lastOp.threw
    /\ lastOp.before >= 1
    /\ lastOp.size >= 1
    /\ Len(benchmark_results) = lastOp.before + lastOp.size

\* C28: for every result row linked to an existing snapshot row, the joined
\* query returns an entry whose systemSpecs is present and whose fields are
\* those of the snapshot row, its timestamp included.
C28_SpecsOfTheSnapshot ==
    lastOp.op \in JoinedQueries =>
        \A j \in 1..Len(lastOp.rows) :
            \A i \in 1..Len(system_specs) :
                LET r == lastOp.rows[j]
                    s == system_specs[i]
                IN  r.systemSpecsId = <<s.id>> =>
                        /\ r.systemSpecs # <<>>
                        /\ r.systemSpecs[1].id = <<s.id>>
                        /\ r.systemSpecs[1].serverName = s.server_name
                        /\ r.systemSpecs[1].cpuModel = s.cpu_model
                        /\ r.systemSpecs[1].cpuCores = s.cpu_cores
                        /\ r.systemSpecs[1].motherboard = s.motherboard
                        /\ r.systemSpecs[1].gpus = s.gpus.json
                        /\ (r.systemSpecs[1].strixHalo # <<>>) <=> (s.strix_halo # Null)
                        /\ r.systemSpecs[1].timestamp = s.timestamp

\* the operations that go through getDatabase() or initDatabase()
OpeningOperations ==
    {"initDatabase", "saveSystemSpecs", "saveBenchmarkResults", "getAllBenchmarkResults",
     "getBenchmarkResultsWithSpecs", "GET /api/results-with-specs"}

C23_LatestIsMostRecentSave ==
    lastOp.op = "getLatestSystemSpecs" =>
        /\ (lastOp.rows = Null) <=> (system_specs = <<>>)
        /\ system_specs # <<>> =>
              lastOp.rows = <<SystemSpecsRecord(system_specs[Len(system_specs)])>>

\* the POST /api/run-benchmark requests
BenchmarkRequests ==
    {p \in Requests : proc[p].url = "/api/run-benchmark" /\ proc[p].method = "POST"}

C26_ExactlyOneResponse ==
    \A p \in Requests :
        /\ proc[p].responses <= 1
        /\ proc[p].pc = "done" => proc[p].responses = 1

----------------------------------------------------------------------------
(* Claims about the host side (SpecHost) *)

\* the operation under way is this one and it has returned
Returned(kind) == task.kind = kind /\ task.ret # <<>>

\* the task issued this command
Ran(cmd) == \E i \in 1..Len(task.log) : task.log[i].cmd = cmd

Probes == {"lspci", "which rocm-smi", "which vulkaninfo"}

\* C13: when detectStrixHalo returns, each of its three probes (hardware
\* enumeration, driver-stack binary, secondary graphics API binary) has run,
\* whichever of them failed.
C13_EveryProbeRuns ==
    Returned("detectStrixHalo") => \A cmd \in Probes : Ran(cmd)

HasMarker(text) ==
    LowerIncludes(text, "amd") \/ LowerIncludes(text, "ati") \/ LowerIncludes(text, "radeon")

\* C14: when the hardware enumeration answers with a text holding no vendor
\* marker, detectStrixHalo returns detected = false with gpuModel, rocmVersion
\* and vulkanSupport all unset, whatever the other probes answer.
C14_NoMarkerNothingPopulated ==
    (Returned("detectStrixHalo") /\ task.log[1].ok /\ ~HasMarker(task.log[1].stdout)) =>
        task.ret[1] = NoInfo

\* C15: listAvailableToolboxes returns the catalog entry for entry, with
\* available = true exactly where the name is a substring of the listing, and
\* all false when the listing command failed; the catalog itself never
\* changes.
C15_AvailableIffListed ==
    /\ catalog = STRIX_HALO_TOOLBOXES
    /\ Returned("listAvailableToolboxes") =>
          LET r == task.ret[1]
              a == task.log[1]
          IN  /\ Len(r) = Len(STRIX_HALO_TOOLBOXES)
              /\ \A i \in 1..Len(r) :
                    /\ r[i].name = STRIX_HALO_TOOLBOXES[i].name
                    /\ r[i].backend = STRIX_HALO_TOOLBOXES[i].backend
                    /\ r[i].version = STRIX_HALO_TOOLBOXES[i].version
                    /\ r[i].image = STRIX_HALO_TOOLBOXES[i].image
                    /\ r[i].available <=>
                          (a.ok /\ \E k \in 1..Len(a.stdout) : IsInfix(r[i].name, a.stdout[k]))

\* the listing names llama-vulkan-radv inside a longer name
C15_Witness ==
    /\ Returned("listAvailableToolboxes")
    /\ task.log[1].ok
    /\ task.log[1].stdout = <<<<"llama", "vulkan", "radv", "old">>, <<"fedora", "toolbox">>>>
    /\ task.ret[1][5].available
    /\ ~task.ret[1][3].available

SomeCall(status) == \E c \in DOMAIN task.calls : task.calls[c].status = status

\* C16: getSystemSpecs always returns a snapshot: the reduced one as soon as
\* any introspection call has failed, the full one once all have answered;
\* and the gpus list of the snapshot is never empty.
C16_SnapshotNeverFails ==
    task.kind = "getSystemSpecs" =>
        /\ SomeCall("failed") => task.ret = <<FallbackSpecs>>
        /\ (\A c \in IntrospectionCalls : task.calls[c].status = "ok") => task.ret # <<>>
        /\ task.ret # <<>> => Len(task.ret[1].gpus) >= 1

\* a call failed and the reduced snapshot was returned
C16_Witness ==
    /\ Returned("getSystemSpecs")
    /\ task.calls["cpu"].status = "failed"
    /\ task.ret = <<FallbackSpecs>>

\* C17: when getSystemSpecs returns its snapshot, none of the parallel
\* introspection calls is still in flight.
C17_JoinAllBarrier ==
    Returned("getSystemSpecs") => ~SomeCall("pending")

\* C18: a benchmark command that produced a measurement and failed to write
\* it to the store does not end with exit code 0.
C18_PersistenceFailureIsFatal ==
    (Returned("cmdBenchmark") /\ task.ret[1].measured /\ ~task.ret[1].saved) =>
        task.ret[1].exitCode # 0

TimedOperations ==
    {"benchmarkModel", "benchmarkWithToolbox", "checkModelAvailable", "detectStrixHalo",
     "isToolboxInstalled", "listAvailableToolboxes", "createToolbox"}

\* C19: whenever one of the subprocess or network operations waits on a
\* command or endpoint that will never answer, a timeout is armed to end the
\* wait, so the operation cannot hang.
C19_EveryWaitHasTimeout ==
    (task.kind \in TimedOperations /\ task.wait # NoWait /\ ~task.wait[1].answers) =>
        task.wait[1].timeout # <<>>

\* the step in which the benchmark command returns
CmdBenchmarkEnds ==
    /\ task'.kind = "cmdBenchmark"
    /\ task'.pc = "returned"
    /\ \/ task.kind # "cmdBenchmark"
       \/ task.pc # "returned"
       \/ task'.ret # task.ret

\* the rows the step appended to a table
Appended(rows, after) == SubSeq(after, Len(rows) + 1, Len(after))

C30_NameChoicesAgree ==
    (call.kind = "benchmarkWithToolbox" /\ ret # <<>>) =>
        /\ call.cmd # <<>>
        /\ call.cmd[1].toolbox = call.toolboxName
        /\ (call.cmd[1].llamaBenchPath = "/usr/sbin/llama-bench") <=> (ret[1].backend = "vulkan")
        /\ call.cmd[1].envVars # "" => ret[1].backend = "rocm"
        /\ \A i \in 1..Len(STRIX_HALO_TOOLBOXES) :
              STRIX_HALO_TOOLBOXES[i].name = call.toolboxName =>
                  ret[1].backend = STRIX_HALO_TOOLBOXES[i].backend

\* the text up to the first separator, and the text after it
RECURSIVE Before(_, _)
Before(text, sep) ==
    IF text = <<>> \/ Head(text) = sep THEN <<>>
    ELSE <<Head(text)>> \o Before(Tail(text), sep)

After(text, sep) == SubSeq(text, Len(Before(text, sep)) + 2, Len(text))

\* text.split(sep)
RECURSIVE Split(_, _)
Split(text, sep) ==
    IF \A i \in 1..Len(text) : text[i] # sep THEN <<text>>
    ELSE <<Before(text, sep)>> \o Split(After(text, sep), sep)

\* a CSV reader: the lines that are not empty, each split at its commas
ParseCsv(text) ==
    LET lines == SelectSeq(Split(text, LineFeed), LAMBDA line : line # <<>>)
    IN  [i \in 1..Len(lines) |-> Split(lines[i], Comma)]

\* C25: the text saveResultsToCSV writes is the header line followed by one
\* row per result in order; read back as comma-separated rows, row i has
\* the model of result i in the Model column and Success or Failed, as
\* result i succeeded or not, in the Status column; an empty result set
\* gives the header line only.
C25_CsvRoundTrip ==
    file # <<>> =>
        LET results == call.output
            parsed  == ParseCsv(file[1])
        IN  /\ SubSeq(file[1], 1, Len(csvHeader)) = csvHeader
            /\ results = <<>> => file[1] = csvHeader
            /\ Len(parsed) = Len(results) + 1
            /\ \A i \in 1..Len(results) :
                  /\ Len(parsed[i + 1]) = Len(parsed[1])
                  /\ parsed[i + 1][1] = results[i].model
                  /\ parsed[i + 1][6] = <<IF results[i].success THEN "Success" ELSE "Failed">>

====
